---- MODULE Spec2Model ----
(***************************************************************************)
(* Field descriptors of redisco (redisco/models/attributes.py, Python 2):  *)
(* Attribute and its typed subclasses, ListField and ReferenceField.       *)
(*                                                                         *)
(* Python values are records [t, n, us, s]: t is the type tag, n an        *)
(* integer payload (int, bool as 0/1, whole seconds of a float, datetime   *)
(* or date), us the millionths of a float or datetime, s the characters of *)
(* a str.  Strings are sequences of one-character strings, so that         *)
(* formatting and parsing are computed digit by digit.  The local time     *)
(* zone is taken to be UTC.                                                *)
(***************************************************************************)
EXTENDS Integers, Sequences, FiniteSets, TLC

VARIABLES
    \* the conversions alone: a field class, a value, what was written, what was read
    castKind, castIn, castStored, castBack, castPc,
    \* a scalar field and one instance: the descriptor, instance.is_new(), the
    \* hash field in the store, the instance's '_' + name attribute
    field, isNew, store, slot,
    \* hget calls, and those after which the read conversion raised
    reads, failedReads,
    \* the last value a caller set, and the first load
    hSet, hFirst,
    \* the last call and its outcome
    lastOp,
    \* a ReferenceField and the instances of its model: the field's default, each
    \* instance's attname attribute, the descriptor's own '_' + name attribute,
    \* the identifiers the target model's get_by_id finds
    refDefault, attname, refCache, exists,
    \* the last call on the reference field, the instances read so far, and
    \* whether an identifier or the target's records changed after a read
    refOp, hGot, hChanged,
    \* a ListField and one instance: the descriptor's settings, its _target_type
    \* attribute, instance.is_new(), the members of the backing list, the
    \* identifiers the target model's get_by_id finds, the instance's '_' + name
    \* attribute, the last call
    lfield, lTarget, lIsNew, members, lExists, lSlot, listOp

castVars == <<castKind, castIn, castStored, castBack, castPc>>
scalarVars == <<field, isNew, store, slot, reads, failedReads, hSet, hFirst, lastOp>>
refVars == <<refDefault, attname, refCache, exists, refOp, hGot, hChanged>>
listVars == <<lfield, lTarget, lIsNew, members, lExists, lSlot, listOp>>
vars == <<castVars, scalarVars, refVars, listVars>>

\* ------------------------------------------------------------ bounds
\* whole seconds 0..MaxSecs (and one epoch-sized value) in datetimes and floats
MaxSecs == 1
\* leading digit 0..MaxDigit of the microsecond components d * 10^k
MaxDigit == 1
\* identifiers 1..MaxId of the records of a target model
MaxId == 2
\* members of a backing list
MaxLen == 3
\* integers -MaxInt..MaxInt
MaxInt == 2
\* hget calls on the one instance and field
MaxReads == 3

\* decimal digits of the microsecond component of a datetime
MicroDigits == 6

\* ------------------------------------------------------------ values
Kinds == {"str", "bool", "int", "float", "datetime", "date"}

None == [t |-> "none", n |-> 0, us |-> 0, s |-> <<>>]
StrV(s) == [t |-> "str", n |-> 0, us |-> 0, s |-> s]
IntV(n) == [t |-> "int", n |-> n, us |-> 0, s |-> <<>>]
BoolV(b) == [t |-> "bool", n |-> IF b THEN 1 ELSE 0, us |-> 0, s |-> <<>>]
FloatV(n, us) == [t |-> "float", n |-> n, us |-> us, s |-> <<>>]
DateTimeV(n, us) == [t |-> "datetime", n |-> n, us |-> us, s |-> <<>>]
DateV(n) == [t |-> "date", n |-> n, us |-> 0, s |-> <<>>]

Ok(v) == [exc |-> "none", val |-> v]
Raise(e) == [exc |-> e, val |-> None]

NoResult == Raise("unset")

RECURSIVE Pow10(_)
Pow10(k) == IF k = 0 THEN 1 ELSE 10 * Pow10(k - 1)

Million == Pow10(MicroDigits)
SecondsPerDay == 24 * 60 * 60
HalfMicros == 5 * Pow10(MicroDigits - 1)

\* bool(v)
Truthy(v) ==
    CASE v.t = "none" -> FALSE
      [] v.t = "str" -> v.s # <<>>
      [] v.t \in {"int", "bool"} -> v.n # 0
      [] v.t = "float" -> v.n # 0 \/ v.us # 0
      [] OTHER -> TRUE

\* ------------------------------------------------------------ characters
DigitChars == <<"0", "1", "2", "3", "4", "5", "6", "7", "8", "9">>
IsDigit(c) == \E d \in 1..10 : DigitChars[d] = c
DigitVal(c) == (CHOOSE d \in 1..10 : DigitChars[d] = c) - 1
AllDigits(s) == \A i \in 1..Len(s) : IsDigit(s[i])

RECURSIVE NatStr(_)
NatStr(n) ==
    IF n < 10 THEN <<DigitChars[n + 1]>>
    ELSE NatStr(n \div 10) \o <<DigitChars[(n % 10) + 1]>>

IntStr(n) == IF n < 0 THEN <<"-">> \o NatStr(-n) ELSE NatStr(n)

RECURSIVE DigitsVal(_)
DigitsVal(s) ==
    IF s = <<>> THEN 0
    ELSE 10 * DigitsVal(SubSeq(s, 1, Len(s) - 1)) + DigitVal(s[Len(s)])

RECURSIVE StripZeros(_)
StripZeros(s) ==
    IF Len(s) > 1 /\ s[Len(s)] = "0" THEN StripZeros(SubSeq(s, 1, Len(s) - 1))
    ELSE s

\* n as exactly w digits, zero padded on the left
RECURSIVE PadStr(_, _)
PadStr(n, w) ==
    IF w = 0 THEN <<>> ELSE PadStr(n \div 10, w - 1) \o <<DigitChars[(n % 10) + 1]>>

\* ------------------------------------------------------------ builtins
\* int(x)
PyInt(x) ==
    CASE x.t = "str" ->
            LET neg == x.s # <<>> /\ x.s[1] = "-"
                body == IF neg THEN SubSeq(x.s, 2, Len(x.s)) ELSE x.s
            IN  IF body # <<>> /\ AllDigits(body)
                THEN Ok(IntV(IF neg THEN -DigitsVal(body) ELSE DigitsVal(body)))
                ELSE Raise("ValueError")
      [] x.t \in {"int", "bool"} -> Ok(IntV(x.n))
      [] x.t = "float" -> Ok(IntV(IF x.n < 0 /\ x.us > 0 THEN x.n + 1 ELSE x.n))
      [] OTHER -> Raise("TypeError")

\* the first position of "." in s, or 0
DotAt(s) ==
    IF \E i \in 1..Len(s) : s[i] = "."
    THEN CHOOSE i \in 1..Len(s) : s[i] = "." /\ \A j \in 1..(i - 1) : s[j] # "."
    ELSE 0

\* the fraction digits f as millionths, rounded half up (may be Million)
FracMicros(f) ==
    IF Len(f) <= MicroDigits THEN DigitsVal(f) * Pow10(MicroDigits - Len(f))
    ELSE (DigitsVal(SubSeq(f, 1, MicroDigits + 1)) + 5) \div 10

\* float(x)
PyFloat(x) ==
    CASE x.t = "str" ->
            LET neg == x.s # <<>> /\ x.s[1] = "-"
                body == IF neg THEN SubSeq(x.s, 2, Len(x.s)) ELSE x.s
                dot == DotAt(body)
                w == IF dot = 0 THEN body ELSE SubSeq(body, 1, dot - 1)
                f == IF dot = 0 THEN <<>> ELSE SubSeq(body, dot + 1, Len(body))
            IN  IF AllDigits(w) /\ AllDigits(f) /\ (w # <<>> \/ f # <<>>)
                THEN LET fm == FracMicros(f)
                         whole == DigitsVal(w) + (fm \div Million)
                         frac == fm % Million
                     IN  IF ~neg THEN Ok(FloatV(whole, frac))
                         ELSE IF frac = 0 THEN Ok(FloatV(-whole, 0))
                         ELSE Ok(FloatV(-whole - 1, Million - frac))
                ELSE Raise("ValueError")
      [] x.t \in {"int", "bool"} -> Ok(FloatV(x.n, 0))
      [] x.t = "float" -> Ok(x)
      [] OTHER -> Raise("TypeError")

\* str(float): the shortest decimal form, at least one fraction digit
FloatStr(v) ==
    LET neg == v.n < 0
        whole == IF ~neg THEN v.n ELSE IF v.us = 0 THEN -v.n ELSE -v.n - 1
        frac == IF ~neg \/ v.us = 0 THEN v.us ELSE Million - v.us
    IN  (IF neg THEN <<"-">> ELSE <<>>) \o NatStr(whole) \o <<".">>
            \o StripZeros(PadStr(frac, MicroDigits))

\* str(x), for the values whose text the model represents
PyStr(x) ==
    CASE x.t = "str" -> x.s
      [] x.t = "none" -> <<"N", "o", "n", "e">>
      [] x.t = "int" -> IntStr(x.n)
      [] x.t = "bool" -> IF x.n = 1 THEN <<"T", "r", "u", "e">>
                         ELSE <<"F", "a", "l", "s", "e">>
      [] x.t = "float" -> FloatStr(x)

\* isinstance(x, cls): bool is a subclass of int, datetime of date
IsInstance(x, cls) ==
    \/ x.t = cls
    \/ x.t = "bool" /\ cls = "int"
    \/ x.t = "datetime" /\ cls = "date"

\* time.mktime(value.timetuple()): whole seconds, the microseconds dropped
MkTime(v) == v.n

\* datetime.fromtimestamp(f)
DateTimeFromTimestamp(f) == DateTimeV(f.n, f.us)

\* date.fromtimestamp(f): the day the instant falls in
DateFromTimestamp(f) == DateV(f.n - (f.n % SecondsPerDay))

\* ------------------------------------------------------------ typecasts
\* "except TypeError, ValueError:" is Python 2 for "except TypeError as ValueError":
\* it catches TypeError alone
CaughtOnRead(e) == e = "TypeError"

\* <Field>.typecast_for_read(value), by field class k
typecast_for_read(k, value) ==
    CASE k = "str" -> Ok(value)
      [] k = "bool" ->
            LET r == PyInt(value)
            IN  IF r.exc # "none" THEN r ELSE Ok(BoolV(r.val.n # 0))
      [] k = "int" -> PyInt(value)
      [] k = "float" -> PyFloat(value)
      [] k = "datetime" ->
            LET r == PyFloat(value)
            IN  IF r.exc = "none" THEN Ok(DateTimeFromTimestamp(r.val))
                ELSE IF CaughtOnRead(r.exc) THEN Ok(None)
                ELSE r
      [] k = "date" ->
            LET r == PyFloat(value)
            IN  IF r.exc = "none" THEN Ok(DateFromTimestamp(r.val))
                ELSE IF CaughtOnRead(r.exc) THEN Ok(None)
                ELSE r

\* "%d.%d" % (time.mktime(value.timetuple()), value.microsecond)
DateTimeStorageForm(value) == IntStr(MkTime(value)) \o <<".">> \o IntStr(value.us)

\* "%f" % time.mktime(value.timetuple())
DateStorageForm(value) == IntStr(MkTime(value)) \o <<".">> \o PadStr(0, MicroDigits)

\* the isinstance test that opens the datetime and date storage conversions
StorageTypeOk(k, value) == IsInstance(value, k)

\* <Field>.typecast_for_storage(value), by field class k
typecast_for_storage(k, value) ==
    CASE k = "str" -> Ok(StrV(PyStr(value)))
      [] k = "bool" ->
            IF value = None THEN Ok(StrV(<<"0">>))
            ELSE Ok(StrV(IF Truthy(value) THEN <<"1">> ELSE <<"0">>))
      [] k \in {"int", "float"} ->
            IF value = None THEN Ok(StrV(<<"0">>)) ELSE Ok(StrV(PyStr(value)))
      [] k = "datetime" ->
            IF ~StorageTypeOk(k, value) THEN Raise("TypeError")
            ELSE IF value = None THEN Ok(None)
            ELSE Ok(StrV(DateTimeStorageForm(value)))
      [] k = "date" ->
            IF ~StorageTypeOk(k, value) THEN Raise("TypeError")
            ELSE IF value = None THEN Ok(None)
            ELSE Ok(StrV(DateStorageForm(value)))

\* value_type(), by field class k
value_type(k) == k

\* ------------------------------------------------------------ scalar fields
\* the instance has no '_' + name attribute yet
Unset == [t |-> "unset", n |-> 0, us |-> 0, s |-> <<>>]

FieldName == "f"

\* a default of the field's own type
TypedDefault(k) ==
    CASE k = "str" -> StrV(<<"d">>)
      [] k = "bool" -> BoolV(TRUE)
      [] k = "int" -> IntV(MaxInt)
      [] k = "float" -> FloatV(1, HalfMicros)
      [] k = "datetime" -> DateTimeV(1, 0)
      [] k = "date" -> DateV(SecondsPerDay)

Fields ==
    {[kind |-> k, default |-> d, required |-> r, validator |-> c] :
        k \in Kinds, d \in {None}, r \in BOOLEAN, c \in {"none", "reject"}}
    \cup {[kind |-> k, default |-> TypedDefault(k), required |-> FALSE,
           validator |-> "none"] : k \in Kinds}

\* what hget may hold: nothing, or a raw string
RawValues ==
    {None, StrV(<<"1">>), StrV(<<"a">>), StrV(<<"1", ".", "5">>)}

\* what a caller may assign
SetValues ==
    {None, StrV(<<>>), StrV(<<" ">>), StrV(<<"a">>), IntV(0), IntV(1), FloatV(0, 0),
     BoolV(FALSE), DateTimeV(0, 0)}

\* Attribute.__set__: setattr(instance, '_' + name, value)
Attribute_set(sl, value) == value

\* a __get__ that loads but keeps nothing on the instance
Attribute_get_uncached(f, new, st, sl) ==
    IF sl # Unset THEN [res |-> Ok(sl), slot |-> sl, read |-> FALSE]
    ELSE IF ~new
    THEN IF st # None
         THEN [res |-> typecast_for_read(f.kind, st), slot |-> sl, read |-> TRUE]
         ELSE [res |-> Ok(None), slot |-> sl, read |-> TRUE]
    ELSE [res |-> Ok(f.default), slot |-> sl, read |-> FALSE]

\* Attribute.__get__ with the slot sl, is_new() = new and hget = st: the result,
\* the slot afterwards, and whether hget was called
Attribute_get(f, new, st, sl) ==
    IF sl # Unset THEN [res |-> Ok(sl), slot |-> sl, read |-> FALSE]
    ELSE IF ~new
    THEN IF st # None
         THEN LET r == typecast_for_read(f.kind, st)
              IN  IF r.exc # "none" THEN [res |-> r, slot |-> sl, read |-> TRUE]
                  ELSE [res |-> r, slot |-> Attribute_set(sl, r.val), read |-> TRUE]
         ELSE [res |-> Ok(None), slot |-> Attribute_set(sl, None), read |-> TRUE]
    ELSE [res |-> Ok(f.default), slot |-> Attribute_set(sl, f.default), read |-> FALSE]

\* str(val).strip() is empty: only a str of blanks is
Blank(val) == val.t = "str" /\ \A i \in 1..Len(val.s) : val.s[i] = " "

\* the type test of Attribute.validate
BadType(f, val) == Truthy(val) /\ ~IsInstance(val, value_type(f.kind))

\* the validator callback: none, or one that rejects every value
ValidatorErrors(f, val) ==
    IF f.validator = "reject" THEN <<<<FieldName, "rejected">>>> ELSE <<>>

\* Attribute.validate: the errors collected for val
Attribute_validate(f, val) ==
    (IF BadType(f, val) THEN <<<<FieldName, "bad type">>>> ELSE <<>>)
    \o (IF f.required /\ (val = None \/ Blank(val))
        THEN <<<<FieldName, "required">>>> ELSE <<>>)
    \o ValidatorErrors(f, val)

NoOp == [op |-> "none", got |-> NoResult, read |-> FALSE, exc |-> "none",
         errors |-> <<>>, arg |-> None]
NoFirst == [done |-> FALSE, val |-> None, wasNew |-> FALSE, raw |-> None]

ScalarInit ==
    /\ field \in Fields
    /\ isNew \in BOOLEAN
    /\ store \in RawValues
    /\ slot = Unset
    /\ reads = 0
    /\ failedReads = 0
    /\ hSet = Unset
    /\ hFirst = NoFirst
    /\ lastOp = NoOp

ScalarIdle ==
    /\ field = [kind |-> "str", default |-> None, required |-> FALSE, validator |-> "none"]
    /\ isNew = FALSE
    /\ store = None
    /\ slot = Unset
    /\ reads = 0
    /\ failedReads = 0
    /\ hSet = Unset
    /\ hFirst = NoFirst
    /\ lastOp = NoOp

\* the part of a call that goes through __get__
Load(g) ==
    /\ g.read => reads < MaxReads
    /\ slot' = g.slot
    /\ reads' = IF g.read THEN reads + 1 ELSE reads
    /\ failedReads' = IF g.read /\ g.res.exc # "none" THEN failedReads + 1
                      ELSE failedReads
    /\ hFirst' = IF slot = Unset /\ g.res.exc = "none"
                 THEN [done |-> TRUE, val |-> g.res.val, wasNew |-> isNew, raw |-> store]
                 ELSE hFirst

\* instance.f
Get ==
    LET g == Attribute_get(field, isNew, store, slot)
    IN  /\ Load(g)
        /\ lastOp' = [op |-> "get", got |-> g.res, read |-> g.read, exc |-> g.res.exc,
                      errors |-> <<>>, arg |-> None]
        /\ UNCHANGED <<field, isNew, store, hSet>>
        /\ UNCHANGED <<castVars, refVars, listVars>>

\* instance.f = value
Set ==
    \E value \in SetValues :
        /\ slot' = Attribute_set(slot, value)
        /\ hSet' = value
        /\ lastOp' = [op |-> "set", got |-> NoResult, read |-> FALSE, exc |-> "none",
                      errors |-> <<>>, arg |-> value]
        /\ UNCHANGED <<field, isNew, store, reads, failedReads, hFirst>>
        /\ UNCHANGED <<castVars, refVars, listVars>>

\* field.validate(instance)
Validate ==
    LET g == Attribute_get(field, isNew, store, slot)
        errors == IF g.res.exc = "none" THEN Attribute_validate(field, g.res.val)
                  ELSE <<>>
    IN  /\ Load(g)
        /\ lastOp' = [op |-> "validate", got |-> g.res, read |-> g.read,
                      exc |-> IF g.res.exc # "none" THEN g.res.exc
                              ELSE IF errors # <<>> THEN "FieldValidationError"
                              ELSE "none",
                      errors |-> errors, arg |-> None]
        /\ UNCHANGED <<field, isNew, store, hSet>>
        /\ UNCHANGED <<castVars, refVars, listVars>>

\* another client writes or deletes the hash field
StoreChange ==
    \E raw \in RawValues :
        /\ raw # store
        /\ store' = raw
        /\ lastOp' = [NoOp EXCEPT !.op = "store"]
        /\ UNCHANGED <<field, isNew, slot, reads, failedReads, hSet, hFirst>>
        /\ UNCHANGED <<castVars, refVars, listVars>>

\* the model layer saves the instance: is_new() turns false
Persist ==
    /\ isNew
    /\ isNew' = FALSE
    /\ lastOp' = [NoOp EXCEPT !.op = "save"]
    /\ UNCHANGED <<field, store, slot, reads, failedReads, hSet, hFirst>>
    /\ UNCHANGED <<castVars, refVars, listVars>>

ScalarNext == Get \/ Set \/ Validate \/ StoreChange \/ Persist

\* ------------------------------------------------------------ reference fields
Instances == {"a", "b"}
Ids == 1..MaxId

\* model objects: None, an instance of the target model, an instance of another
NoneObj == [cls |-> "none", id |-> 0]
UnsetObj == [cls |-> "unset", id |-> 0]
Obj(c, i) == [cls |-> c, id |-> i]
Targets == {Obj("Target", i) : i \in Ids}
RefValues == {NoneObj, Obj("Other", 1)} \cup Targets

NoAttr == [set |-> FALSE, id |-> 0]
Attr(i) == [set |-> TRUE, id |-> i]

\* TargetModel.objects.get_by_id(identifier)
get_by_id(ex, i) == IF i \in ex THEN Obj("Target", i) ELSE NoneObj

\* ReferenceField.__set__ on an instance whose attname attribute is att: the
\* exception raised, and the attribute afterwards
ReferenceField_set(att, value) ==
    IF value.cls # "Target" /\ value # NoneObj
    THEN [exc |-> "TypeError", att |-> att]
    ELSE IF value = NoneObj
    THEN [exc |-> "AttributeError", att |-> att]
    ELSE [exc |-> "none", att |-> Attr(value.id)]

\* ReferenceField.__get__ on an instance whose attname attribute is att, with the
\* descriptor's '_' + name attribute cache: the object returned and the
\* descriptor's attribute afterwards
ReferenceField_get(cache, att, dflt, ex) ==
    IF cache = UnsetObj
    THEN IF att.set
         THEN [res |-> get_by_id(ex, att.id), cache |-> get_by_id(ex, att.id)]
         ELSE [res |-> dflt, cache |-> dflt]
    ELSE [res |-> cache, cache |-> cache]

NoRefOp == [op |-> "none", inst |-> "a", arg |-> NoneObj, exc |-> "none",
            res |-> NoneObj, attBefore |-> NoAttr, cacheBefore |-> UnsetObj]

RefInit ==
    /\ refDefault \in {NoneObj, Obj("Target", 1)}
    /\ attname = [i \in Instances |-> NoAttr]
    /\ refCache = UnsetObj
    /\ exists = Ids
    /\ refOp = NoRefOp
    /\ hGot = {}
    /\ hChanged = FALSE

RefIdle ==
    /\ refDefault = NoneObj
    /\ attname = [i \in Instances |-> NoAttr]
    /\ refCache = UnsetObj
    /\ exists = Ids
    /\ refOp = NoRefOp
    /\ hGot = {}
    /\ hChanged = FALSE

\* instance.ref = value
RefSet ==
    \E i \in Instances, value \in RefValues :
        LET r == ReferenceField_set(attname[i], value)
        IN  /\ attname' = [attname EXCEPT ![i] = r.att]
            /\ refOp' = [op |-> "set", inst |-> i, arg |-> value, exc |-> r.exc,
                         res |-> NoneObj, attBefore |-> attname[i],
                         cacheBefore |-> refCache]
            /\ hChanged' = (hChanged \/ (hGot # {} /\ r.att # attname[i]))
            /\ UNCHANGED <<refDefault, refCache, exists, hGot>>
            /\ UNCHANGED <<castVars, scalarVars, listVars>>

\* instance.ref
RefGet ==
    \E i \in Instances :
        LET r == ReferenceField_get(refCache, attname[i], refDefault, exists)
        IN  /\ refCache' = r.cache
            /\ refOp' = [op |-> "get", inst |-> i, arg |-> NoneObj, exc |-> "none",
                         res |-> r.res, attBefore |-> attname[i],
                         cacheBefore |-> refCache]
            /\ hGot' = hGot \cup {i}
            /\ UNCHANGED <<refDefault, attname, exists, hChanged>>
            /\ UNCHANGED <<castVars, scalarVars, listVars>>

\* a record of the target model is deleted
RefDelete ==
    \E i \in exists :
        /\ exists' = exists \ {i}
        /\ refOp' = [NoRefOp EXCEPT !.op = "delete"]
        /\ hChanged' = (hChanged \/ hGot # {})
        /\ UNCHANGED <<refDefault, attname, refCache, hGot>>
        /\ UNCHANGED <<castVars, scalarVars, listVars>>

RefNext == RefSet \/ RefGet \/ RefDelete

\* ------------------------------------------------------------ list fields
\* a target type: a model name still to resolve, the model class, the builtin
\* int, or None
NameT(nm) == [kind |-> "name", name |-> nm]
ModelT == [kind |-> "model", name |-> "Target"]
IntT == [kind |-> "int", name |-> "int"]
NoneT == [kind |-> "none", name |-> ""]

\* the names of the declared model classes
Registry == {"Target"}

\* base.get_model_from_key(name): the model class, or None
get_model_from_key(nm) == IF nm \in Registry THEN ModelT ELSE NoneT

\* the identifiers a backing list may hold
MemberIds == {1, 2, 3}

RECURSIVE SeqsUpTo(_, _)
SeqsUpTo(S, n) ==
    IF n = 0 THEN {<<>>}
    ELSE LET shorter == SeqsUpTo(S, n - 1)
         IN  shorter \cup {Append(q, x) : q \in {r \in shorter : Len(r) = n - 1}, x \in S}

\* list values: a list of objects, no attribute yet, or a value that is no list
ListV(items) == [t |-> "list", items |-> items]
UnsetList == [t |-> "unset", items |-> <<>>]
NotAList == [t |-> "str", items |-> <<>>]

ListTruthy(v) == v.t = "str" \/ (v.t = "list" /\ v.items # <<>>)

\* isinstance(target_type, basestring) or issubclass(target_type, Model)
redisco_model(declared) == declared.kind \in {"name", "model"}

ListFields ==
    {[declared |-> d, default |-> <<>>, required |-> r,
      validator |-> IF r THEN "reject" ELSE "none"] :
        d \in {NameT("Target"), NameT("Ghost"), ModelT, IntT}, r \in BOOLEAN}
    \cup {[declared |-> d, default |-> <<1>>, required |-> FALSE, validator |-> "none"] :
        d \in {NameT("Target"), NameT("Ghost"), ModelT, IntT}}

\* ListField.value_type() with _target_type = tt: the exception raised, the
\* class returned, and _target_type afterwards
ListField_value_type(tt) ==
    IF tt.kind = "name"
    THEN LET found == get_model_from_key(tt.name)
         IN  IF found = NoneT
             THEN [exc |-> "ValueError", klass |-> NoneT, tt |-> found]
             ELSE [exc |-> "none", klass |-> found, tt |-> found]
    ELSE [exc |-> "none", klass |-> tt, tt |-> tt]

\* [klass.objects.get_by_id(v) for v in val]
MapResolved(ex, val) == [i \in 1..Len(val) |-> get_by_id(ex, val[i])]

\* a filter that lets None through
KeepAll(objs) == objs

\* filter(lambda o: o is not None, objs)
DropNone(objs) == SelectSeq(objs, LAMBDA o : o # NoneObj)

\* [klass(v) for v in val], for klass = int
MapInt(val) == [i \in 1..Len(val) |-> Obj("int", val[i])]

\* ListField.__get__: the result, the instance attribute, _target_type and the
\* outcome of the value_type() call afterwards; loaded: the call went to the
\* backing list
ListField_get(f, tt, new, mem, ex, sl) ==
    IF sl # UnsetList
    THEN [exc |-> "none", res |-> sl, slot |-> sl, tt |-> tt, vt |-> "none",
          klass |-> NoneT, loaded |-> FALSE]
    ELSE LET val == IF new THEN f.default ELSE mem
             r == ListField_value_type(tt)
         IN  IF r.exc # "none"
             THEN [exc |-> r.exc, res |-> UnsetList, slot |-> sl, tt |-> r.tt,
                   vt |-> "raised", klass |-> NoneT, loaded |-> ~new]
             ELSE IF redisco_model(f.declared) /\ r.klass = NoneT /\ val # <<>>
             THEN [exc |-> "AttributeError", res |-> UnsetList, slot |-> sl, tt |-> r.tt,
                   vt |-> "returned", klass |-> r.klass, loaded |-> ~new]
             ELSE LET out == IF redisco_model(f.declared)
                             THEN ListV(DropNone(MapResolved(ex, val)))
                             ELSE ListV(MapInt(val))
                  IN  [exc |-> "none", res |-> out, slot |-> out, tt |-> r.tt,
                       vt |-> "returned", klass |-> r.klass, loaded |-> ~new]

\* isinstance(item, klass)
ItemIsInstance(item, klass) ==
    \/ klass = ModelT /\ item.cls = "Target"
    \/ klass = IntT /\ item.cls = "int"

\* the items of val that fail the isinstance test, one error each
BadItems(val, klass) ==
    LET bad == SelectSeq(val.items, LAMBDA o : ~ItemIsInstance(o, klass))
    IN  [i \in 1..Len(bad) |-> <<FieldName, "bad type in list">>]

\* ListField.validate on the value val that __get__ gave: the exception, the
\* errors, _target_type and the outcome of value_type() afterwards
ListField_validate(f, tt, val) ==
    LET checks == val.t = "list" /\ val.items # <<>>
        r == ListField_value_type(tt)
        rest == (IF f.required /\ ~ListTruthy(val)
                 THEN <<<<FieldName, "required">>>> ELSE <<>>)
                \o (IF f.validator = "reject"
                    THEN <<<<FieldName, "rejected">>>> ELSE <<>>)
        typed == IF ListTruthy(val) /\ val.t # "list"
                 THEN <<<<FieldName, "bad type">>>>
                 ELSE IF checks THEN BadItems(val, r.klass) ELSE <<>>
        errors == typed \o rest
    IN  IF checks /\ r.exc # "none"
        THEN [exc |-> r.exc, errors |-> <<>>, tt |-> r.tt, vt |-> "raised",
              klass |-> NoneT]
        ELSE IF checks /\ r.klass = NoneT
        THEN [exc |-> "TypeError", errors |-> <<>>, tt |-> r.tt, vt |-> "returned",
              klass |-> r.klass]
        ELSE [exc |-> IF errors # <<>> THEN "FieldValidationError" ELSE "none",
              errors |-> errors,
              tt |-> IF checks THEN r.tt ELSE tt,
              vt |-> IF checks THEN "returned" ELSE "none",
              klass |-> IF checks THEN r.klass ELSE NoneT]

SetListValues ==
    {ListV(<<>>), ListV(<<Obj("Target", 1)>>), ListV(<<Obj("Other", 1)>>), NotAList}

NoListOp == [op |-> "none", exc |-> "none", res |-> UnsetList, errors |-> <<>>,
             vt |-> "none", klass |-> NoneT, loaded |-> FALSE]

ListInit ==
    /\ lfield \in ListFields
    /\ lTarget = lfield.declared
    /\ lIsNew \in BOOLEAN
    /\ members \in SeqsUpTo(MemberIds, MaxLen)
    /\ lExists \in SUBSET MemberIds
    /\ lSlot = UnsetList
    /\ listOp = NoListOp

ListIdle ==
    /\ lfield = [declared |-> ModelT, default |-> <<>>, required |-> FALSE,
                 validator |-> "none"]
    /\ lTarget = ModelT
    /\ lIsNew = FALSE
    /\ members = <<>>
    /\ lExists = {}
    /\ lSlot = UnsetList
    /\ listOp = NoListOp

\* instance.items
ListGet ==
    LET g == ListField_get(lfield, lTarget, lIsNew, members, lExists, lSlot)
    IN  /\ lSlot' = g.slot
        /\ lTarget' = g.tt
        /\ listOp' = [op |-> "get", exc |-> g.exc, res |-> g.res, errors |-> <<>>,
                      vt |-> g.vt, klass |-> g.klass, loaded |-> g.loaded]
        /\ UNCHANGED <<lfield, lIsNew, members, lExists>>
        /\ UNCHANGED <<castVars, scalarVars, refVars>>

\* instance.items = value
ListSet ==
    \E value \in SetListValues :
        /\ lSlot' = value
        /\ listOp' = [NoListOp EXCEPT !.op = "set", !.res = value]
        /\ UNCHANGED <<lfield, lTarget, lIsNew, members, lExists>>
        /\ UNCHANGED <<castVars, scalarVars, refVars>>

\* field.validate(instance): __get__, then the validation
ListValidate ==
    LET g == ListField_get(lfield, lTarget, lIsNew, members, lExists, lSlot)
        v == ListField_validate(lfield, g.tt, g.res)
    IN  /\ lSlot' = g.slot
        /\ lTarget' = IF g.exc = "none" THEN v.tt ELSE g.tt
        /\ listOp' =
             IF g.exc # "none"
             THEN [op |-> "validate", exc |-> g.exc, res |-> g.res, errors |-> <<>>,
                   vt |-> g.vt, klass |-> g.klass, loaded |-> FALSE]
             ELSE [op |-> "validate", exc |-> v.exc, res |-> g.res, errors |-> v.errors,
                   vt |-> IF v.vt # "none" THEN v.vt ELSE g.vt,
                   klass |-> IF v.vt # "none" THEN v.klass ELSE g.klass,
                   loaded |-> FALSE]
        /\ UNCHANGED <<lfield, lIsNew, members, lExists>>
        /\ UNCHANGED <<castVars, scalarVars, refVars>>

\* the model layer saves the instance: is_new() turns false
ListPersist ==
    /\ lIsNew
    /\ lIsNew' = FALSE
    /\ listOp' = [NoListOp EXCEPT !.op = "save"]
    /\ UNCHANGED <<lfield, lTarget, members, lExists, lSlot>>
    /\ UNCHANGED <<castVars, scalarVars, refVars>>

ListNext == ListGet \/ ListSet \/ ListValidate \/ ListPersist

\* ------------------------------------------------------------ conversions alone
EpochSecs == 17 * Pow10(8)
SecsSet == (0..MaxSecs) \cup {EpochSecs}
MicroSet == {d * Pow10(e) : d \in 0..MaxDigit, e \in 0..(MicroDigits - 1)}
               \cup {Million - 1}
IntSet == (-MaxInt)..MaxInt

CastValues ==
    {None}
    \cup {StrV(<<>>), StrV(<<"a">>), StrV(<<"1", "0">>)}
    \cup {IntV(n) : n \in IntSet}
    \cup {BoolV(b) : b \in BOOLEAN}
    \cup {FloatV(n, us) : n \in 0..MaxSecs, us \in {0, HalfMicros}}
    \cup {DateTimeV(n, us) : n \in SecsSet, us \in MicroSet}
    \cup {DateV(d * SecondsPerDay) : d \in 0..MaxSecs}

\* str() of a datetime or date is not represented: the str, int and float fields
\* are not given one to store
CastInputs ==
    {p \in Kinds \X CastValues :
        p[1] \in {"str", "int", "float"} => p[2].t \notin {"datetime", "date"}}

CastInit ==
    /\ \E p \in CastInputs : castKind = p[1] /\ castIn = p[2]
    /\ castStored = NoResult
    /\ castBack = NoResult
    /\ castPc = "start"

CastIdle ==
    /\ castKind = "str"
    /\ castIn = None
    /\ castStored = NoResult
    /\ castBack = NoResult
    /\ castPc = "start"

\* the model layer converts the value for the store
ToStorage ==
    /\ castPc = "start"
    /\ castStored' = typecast_for_storage(castKind, castIn)
    /\ castPc' = "stored"
    /\ UNCHANGED <<castKind, castIn, castBack>>
    /\ UNCHANGED <<scalarVars, refVars, listVars>>

\* a later load converts what was written back
ReadBack ==
    /\ castPc = "stored"
    /\ castStored.exc = "none"
    /\ castStored.val # None
    /\ castBack' = typecast_for_read(castKind, castStored.val)
    /\ castPc' = "read"
    /\ UNCHANGED <<castKind, castIn, castStored>>
    /\ UNCHANGED <<scalarVars, refVars, listVars>>

CastNext == ToStorage \/ ReadBack

\* C4: the storage conversion of None is "0" for bool, int and float fields, and
\* returns normally with no value to write (None) for datetime and date fields.
C4_NoneToStorage ==
    (castPc # "start" /\ castIn = None) =>
        /\ castKind \in {"bool", "int", "float"} => castStored = Ok(StrV(<<"0">>))
        /\ castKind \in {"datetime", "date"} => castStored = Ok(None)

\* C5: for every non-None value v of a field's own type, the storage conversion
\* succeeds and reading back what it wrote gives v; for a datetime (s, m) the
\* seconds read back are s and the microsecond component is m.
C5_RoundTrip ==
    castIn.t = castKind =>
        /\ castPc = "stored" => castStored.exc = "none"
        /\ castPc = "read" => castBack = Ok(castIn)

\* ------------------------------------------------------------ scalar claims
\* what a load of the first get had to give
FirstValue ==
    IF hFirst.wasNew THEN field.default
    ELSE IF hFirst.raw = None THEN None
    ELSE typecast_for_read(field.kind, hFirst.raw).val

\* a get that returns gives the last value set, or else the value of the first load
GetIsStable ==
    /\ (lastOp.op = "get" /\ hSet # Unset) => lastOp.got = Ok(hSet)
    /\ (lastOp.op = "get" /\ hSet = Unset /\ lastOp.exc = "none") =>
            hFirst.done /\ lastOp.got = Ok(hFirst.val)
    /\ hFirst.done => hFirst.val = FirstValue

\* C1 (as stated): a get returns the last value set, or else the value the first
\* get established (the default of a new instance, the converted stored value, or
\* None), whatever the store holds by then; the store is read at most once.
C1_ReadAtMostOnce == GetIsStable /\ reads <= 1

\* C1 (amended): a get returns the last value set, or else the value the first get
\* that returned established, whatever the store holds by then; every read of the
\* store but at most one ended in the read conversion raising.
C1_ReadOncePerLoad == GetIsStable /\ reads <= failedReads + 1

\* a persisted instance was loaded once, the store changed, and a get returned the
\* loaded value
C1_Witness ==
    /\ lastOp.op = "get" /\ lastOp.exc = "none" /\ ~lastOp.read
    /\ hSet = Unset /\ hFirst.done /\ ~hFirst.wasNew /\ hFirst.raw # None
    /\ store # hFirst.raw
    /\ reads = 1

\* C6: on a datetime or date field, a get that loads a stored value that does not
\* convert returns None and caches None, raising nothing.
C6_BadDateReadsNone ==
    (/\ lastOp.op = "get" /\ lastOp.read
     /\ field.kind \in {"datetime", "date"}
     /\ store # None /\ PyFloat(store).exc # "none") =>
        lastOp.got = Ok(None) /\ slot = None

\* C7: assigning never raises, and validate after assigning a value other than
\* None and "" that is not of the field's type fails with (name, "bad type").
C7_BadTypeReported ==
    /\ lastOp.op = "set" => lastOp.exc = "none"
    /\ (/\ lastOp.op = "validate"
        /\ hSet \notin {Unset, None, StrV(<<>>)}
        /\ ~IsInstance(hSet, value_type(field.kind))) =>
            /\ lastOp.exc = "FieldValidationError"
            /\ \E i \in 1..Len(lastOp.errors) : lastOp.errors[i] = <<FieldName, "bad type">>

\* ------------------------------------------------------------ reference claims
\* C2: set raises a type error exactly when the value is neither None nor an
\* instance of the target type, and then leaves the attname attribute as it was;
\* in every other case, None included, it completes without error and stores the
\* value's identifier under attname; it never touches the descriptor's cache.
C2_SetTypeChecked ==
    refOp.op = "set" =>
        /\ refOp.exc = "TypeError" <=>
                (refOp.arg # NoneObj /\ refOp.arg.cls # "Target")
        /\ refOp.exc = "TypeError" => attname[refOp.inst] = refOp.attBefore
        /\ refOp.exc # "TypeError" =>
                /\ refOp.exc = "none"
                /\ refOp.arg # NoneObj => attname[refOp.inst] = Attr(refOp.arg.id)
        /\ refCache = refOp.cacheBefore

\* C3: with different identifiers on the instances and nothing assigned or deleted
\* since the first read, a get on an instance returns the object its own
\* identifier resolves to, never the object resolved for another instance.
C3_NoCrossInstance ==
    (/\ refOp.op = "get" /\ ~hChanged
     /\ \A i \in Instances : attname[i].set
     /\ \A i, j \in Instances : i # j => attname[i].id # attname[j].id) =>
        refOp.res = get_by_id(exists, attname[refOp.inst].id)

\* C10: a get on an instance to which a target object was assigned returns the
\* object with the assigned identifier, whatever was read or assigned on that
\* instance before (no other instance having been read).
C10_ReadYourWrites ==
    (/\ refOp.op = "get" /\ hGot \subseteq {refOp.inst}
     /\ attname[refOp.inst].set
     /\ attname[refOp.inst].id \in exists) =>
        refOp.res = Obj("Target", attname[refOp.inst].id)

\* ------------------------------------------------------------ list claims
\* C8: a target declared by a name the registry lacks fails to resolve on every
\* attempt, the first and each later one, and no attempt returns a value as the
\* class; a registered name resolves to the model class, which is kept and
\* returned from then on.
C8_UnknownTargetAlwaysFails ==
    (lfield.declared.kind = "name" /\ listOp.vt # "none") =>
        IF lfield.declared.name \in Registry
        THEN listOp.vt = "returned" /\ listOp.klass = ModelT /\ lTarget = ModelT
        ELSE listOp.vt = "raised" /\ listOp.exc = "ValueError"

\* the field is over a model: declared by the class, or by a registered name
TargetIsModel ==
    \/ lfield.declared = ModelT
    \/ lfield.declared.kind = "name" /\ lfield.declared.name \in Registry

\* the positions of the backing list whose identifier resolves
Resolving == {i \in 1..Len(members) : members[i] \in lExists}
\* the k-th of them
NthResolving(k) == CHOOSE i \in Resolving : Cardinality({j \in Resolving : j <= i}) = k

\* C9: the first get on a persisted instance of a collection field over a model
\* returns, in the backing list's order, the instances of exactly the identifiers
\* that resolve: the others are dropped without error, none is lost or doubled.
C9_ResolvedInOrder ==
    (listOp.op = "get" /\ listOp.loaded /\ TargetIsModel) =>
        /\ listOp.exc = "none"
        /\ listOp.res.t = "list"
        /\ Len(listOp.res.items) = Cardinality(Resolving)
        /\ \A k \in 1..Len(listOp.res.items) :
                listOp.res.items[k] = Obj("Target", members[NthResolving(k)])
        /\ lSlot = listOp.res

\* identifiers 1, 2, 3 with 2 unresolved gave the instances for 1, then 3
C9_Witness ==
    /\ listOp.op = "get" /\ listOp.loaded /\ TargetIsModel
    /\ members = <<1, 2, 3>> /\ lExists = {1, 3}
    /\ listOp.res = ListV(<<Obj("Target", 1), Obj("Target", 3)>>)

\* ------------------------------------------------------------ specifications
InitCast == CastInit /\ ScalarIdle /\ RefIdle /\ ListIdle
SpecCast == InitCast /\ [][CastNext]_vars

InitScalar == ScalarInit /\ CastIdle /\ RefIdle /\ ListIdle
SpecScalar == InitScalar /\ [][ScalarNext]_vars

InitRef == RefInit /\ CastIdle /\ ScalarIdle /\ ListIdle
SpecRef == InitRef /\ [][RefNext]_vars

InitList == ListInit /\ CastIdle /\ ScalarIdle /\ RefIdle
SpecList == InitList /\ [][ListNext]_vars

====
